---------------------------- MODULE Spec2Model ----------------------------
(***************************************************************************)
(* A model of RotatingSquare.js: a square that rotates and scales about a  *)
(* pivot corner and reacts to the edges of a fixed viewport.               *)
(*                                                                         *)
(* Numbers.  The program computes with JavaScript floats; the model        *)
(* computes exactly, in fixed point:                                       *)
(*   - lengths (vertex coordinates, currentCorner, tx, ty, the arguments   *)
(*     of translate/setTranslate) are integers in units of 1/Unit;         *)
(*   - the linear entries e0, e1, e4, e5 of a matrix are integers in units *)
(*     of 1/Unit;                                                          *)
(*   - the translation entries e12, e13 of a matrix are integers in units  *)
(*     of 1/Unit^2, so that a product of a linear entry and a length is    *)
(*     held without rounding;                                              *)
(*   - scale is held as a number of tenths, with the rounding error of the *)
(*     double that the program holds at that number (ScaleUlps); ang and   *)
(*     increment in degrees;                                               *)
(*   - the cosine and sine of an angle are read from a table of the        *)
(*     cosines of 0, 2, ..., 90 degrees rounded to three decimals.         *)
(* Only the entries of a Matrix4 that a 2D affine map uses are kept (the   *)
(* elements 0, 1, 4, 5, 12, 13 of the column-major array); z is 0 and w is *)
(* 1 throughout the program.                                               *)
(*                                                                         *)
(* Both source files (RotatingSquare.js and unnamed/part_000) hold the     *)
(* same program; where they differ in text (the collision handler) both    *)
(* versions are modelled.                                                  *)
(***************************************************************************)
EXTENDS Integers, Sequences, FiniteSets, TLC

\* ------------------------------------------------------------------ bounds
\* Frames executed in one run.
MaxFrames == 132
\* Frames executed in one long run (the angle passes 360 degrees).
MaxFramesLong == 185
\* Presses of r, g, b, w in one run.
MaxCornerKeys == 1
\* Presses of ArrowUp, ArrowDown in one run.
MaxScaleKeys == 2
\* Presses of 0, 1 in one run.
MaxModeKeys == 1
\* Key events are delivered after every KeyPeriod-th frame (any number of them,
\* in any order), and before the first frame when mainEntrance has failed; in a
\* long run, after the KeyPeriod-th frame only.
KeyPeriod == 45
\* Frames executed, and presses of ArrowUp, ArrowDown, in a run of many key
\* presses; in such a run key events are delivered at any time.
MaxFramesKeys == 2
MaxScalePresses == 7

\* ------------------------------------------------------------- fixed point
Unit == 10 * 1000

\* cos(0), cos(2), ..., cos(90), in thousandths.
CosTable ==
  << 1000, 999, 998, 995, 990, 985, 978, 970, 961, 951, 940, 927, 914, 899,
     883, 866, 848, 829, 809, 788, 766, 743, 719, 695, 669, 643, 616, 588,
     559, 530, 500, 469, 438, 407, 375, 342, 309, 276, 242, 208, 174, 139,
     105, 70, 35, 0 >>

\* Math.cos of an even number of degrees, in units of 1/Unit.
Cos(a) ==
  LET r == a % 360
      q == IF r <= 90 THEN r
           ELSE IF r <= 180 THEN 180 - r
           ELSE IF r <= 270 THEN r - 180
           ELSE 360 - r
      c == 10 * CosTable[(q \div 2) + 1]
  IN  IF r <= 90 \/ r >= 270 THEN c ELSE -c

\* Math.sin of an even number of degrees, in units of 1/Unit.
Sin(a) == Cos(a - 90)

\* a * t / Unit for a linear entry a and a translation entry t, without an
\* intermediate product beyond 32 bits.
MulDiv(a, t) == a * (t \div Unit) + ((a * (t % Unit)) \div Unit)

\* Variant of JsRem: the remainder with the sign of the divisor.
FlooredRem(a, n) == a % n

\* The JavaScript remainder a % n (n > 0): the sign of the dividend.
JsRem(a, n) == IF a >= 0 THEN a % n ELSE -((-a) % n)

\* ---------------------------------------------------------------- Matrix4
Identity == [e0 |-> Unit, e1 |-> 0, e4 |-> 0, e5 |-> Unit, e12 |-> 0, e13 |-> 0]

\* Matrix4.setTranslate(x, y, 0)
setTranslate(x, y) ==
  [e0 |-> Unit, e1 |-> 0, e4 |-> 0, e5 |-> Unit, e12 |-> x * Unit, e13 |-> y * Unit]

\* Matrix4.multiply: a * b
multiply(a, b) ==
  [e0  |-> (a.e0 * b.e0 + a.e4 * b.e1) \div Unit,
   e1  |-> (a.e1 * b.e0 + a.e5 * b.e1) \div Unit,
   e4  |-> (a.e0 * b.e4 + a.e4 * b.e5) \div Unit,
   e5  |-> (a.e1 * b.e4 + a.e5 * b.e5) \div Unit,
   e12 |-> MulDiv(a.e0, b.e12) + MulDiv(a.e4, b.e13) + a.e12,
   e13 |-> MulDiv(a.e1, b.e12) + MulDiv(a.e5, b.e13) + a.e13]

\* Matrix4.scale(s, s, 1), s in tenths
scaleBy(m, s) ==
  [m EXCEPT !.e0 = (@ * s) \div 10, !.e1 = (@ * s) \div 10,
            !.e4 = (@ * s) \div 10, !.e5 = (@ * s) \div 10]

\* Matrix4.rotate(a, 0, 0, 1): m * (rotation by a degrees about z)
rotate(m, a) ==
  multiply(m, [e0 |-> Cos(a), e1 |-> Sin(a), e4 |-> -Sin(a), e5 |-> Cos(a),
               e12 |-> 0, e13 |-> 0])

\* Matrix4.translate(x, y, 0): m * (translation by (x, y))
translate(m, x, y) ==
  [m EXCEPT !.e12 = @ + m.e0 * x + m.e4 * y,
            !.e13 = @ + m.e1 * x + m.e5 * y]

\* Matrix4.multiplyVector4 on (x, y, 0, 1): the image, as a length pair
multiplyVector4(m, v) ==
  [x |-> (m.e0 * v.x + m.e4 * v.y + m.e12) \div Unit,
   y |-> (m.e1 * v.x + m.e5 * v.y + m.e13) \div Unit]

\* ---------------------------------------------------------------- globals
\* The x, y of the six vertices, in halves.
vertices == << -1, -1,  1, -1,  1, 1,  -1, -1,  1, 1,  -1, 1 >>

numPoints == Len(vertices) \div 2

wsize == 5

getVertex(i) ==
  LET j == (i % numPoints) * 2
  IN  [x |-> (vertices[j + 1] * Unit) \div 2, y |-> (vertices[j + 2] * Unit) \div 2]

Keys == {"r", "g", "b", "w", "ArrowUp", "ArrowDown", "0", "1", "other"}
CornerKeys == {"r", "g", "b", "w"}
ScaleKeys == {"ArrowUp", "ArrowDown"}
ModeKeys == {"0", "1"}

\* What a linked shader program answers to getAttribLocation.
Attribs == {"both", "noPosition", "noColor"}

VARIABLES
  phase,          \* "loaded" | "failed" | "running": mainEntrance's outcome
  onkeydown,      \* window.onkeydown is handleKeyPress
  cindex, click, collisionMode, scale, modelMatrix,
  ang, tx, ty, increment, currentCorner,   \* the closure's variables
  attribs,        \* the shader's attributes (fixed once linked)
  pending,        \* frame callbacks requested and not yet run
  drawn,          \* << the matrix of the last gl.drawArrays >>, or << >>
  hits,           \* the collisions processed by the last detectcollision
  frames, cornerKeys, scaleKeys, modeKeys   \* counters for the bounds

vars == << phase, onkeydown, cindex, click, collisionMode, scale, modelMatrix,
           ang, tx, ty, increment, currentCorner, attribs, pending, drawn,
           hits, frames, cornerKeys, scaleKeys, modeKeys >>

\* ----------------------------------------------------------- the animation
\* Variant of rotateAndScaleAboutCorner: the pivot is not moved to the origin
\* before the rotation (translate(-x, -y) is missing).
rotateAndScaleNoOrigin(a, x, y, ttx, tty) ==
  LET m1 == setTranslate(x, y)
      m2 == scaleBy(m1, scale)
      m3 == rotate(m2, a)
  IN  translate(m3, ttx, tty)

\* rotateAndScaleAboutCorner: modelMatrix after the five calls.
rotateAndScaleAboutCorner(a, x, y, ttx, tty) ==
  LET m1 == setTranslate(x, y)
      m2 == scaleBy(m1, scale)
      m3 == rotate(m2, a)
      m4 == translate(m3, -x, -y)
  IN  translate(m4, ttx, tty)

cornerIndexes == << 0, 1, 2, 5 >>

\* Variant of collisionType: a corner on the boundary collides too.
collisionTypeInclusive(x, y) ==
  IF 2 * x <= -(wsize * Unit) THEN "left"
  ELSE IF 2 * x >= wsize * Unit THEN "right"
  ELSE IF 2 * y <= -(wsize * Unit) THEN "down"
  ELSE IF 2 * y >= wsize * Unit THEN "up"
  ELSE "none"

\* The branch detectcollision takes for a transformed corner (x, y):
\* x < -wsize / 2, x > wsize / 2, y < -wsize / 2, y > wsize / 2, in this order.
collisionType(x, y) ==
  IF 2 * x < -(wsize * Unit) THEN "left"
  ELSE IF 2 * x > wsize * Unit THEN "right"
  ELSE IF 2 * y < -(wsize * Unit) THEN "down"
  ELSE IF 2 * y > wsize * Unit THEN "up"
  ELSE "none"

fixAmount == (8 * Unit) \div 100

\* Variant of fixTranslation: "up" and "down" exchanged.
fixTranslationSwapped(type) ==
  CASE type = "left"  -> [dx |-> fixAmount, dy |-> 0]
    [] type = "right" -> [dx |-> -fixAmount, dy |-> 0]
    [] type = "up"    -> [dx |-> 0, dy |-> fixAmount]
    [] type = "down"  -> [dx |-> 0, dy |-> -fixAmount]

\* processCollision's switch: the arguments of translateMatrix.setTranslate.
fixTranslation(type) ==
  CASE type = "left"  -> [dx |-> fixAmount, dy |-> 0]
    [] type = "right" -> [dx |-> -fixAmount, dy |-> 0]
    [] type = "up"    -> [dx |-> 0, dy |-> -fixAmount]
    [] type = "down"  -> [dx |-> 0, dy |-> fixAmount]

getTransformedPosition(m, index) == multiplyVector4(m, getVertex(index))

\* Variant of processCollision: mode 0 switches cindex and leaves click alone.
processCollisionNoClick(st, collidedIndex, position, type) ==
  LET f == fixTranslation(type)
      translateMatrix == setTranslate(f.dx, f.dy)
      h == [index |-> collidedIndex, x |-> position.x, y |-> position.y,
            type |-> type, dx |-> f.dx, dy |-> f.dy]
      st1 == [st EXCEPT !.m = multiply(translateMatrix, st.m),
                        !.hits = Append(@, h)]
  IN  IF collisionMode = 0
      THEN [st1 EXCEPT !.cindex = collidedIndex]
      ELSE [st1 EXCEPT !.increment = -1 * @]

\* processCollision on the running state st of one detectcollision:
\* st.m is modelMatrix, st.hits the collisions processed so far.
processCollision(st, collidedIndex, position, type) ==
  LET f == fixTranslation(type)
      translateMatrix == setTranslate(f.dx, f.dy)
      h == [index |-> collidedIndex, x |-> position.x, y |-> position.y,
            type |-> type, dx |-> f.dx, dy |-> f.dy]
      st1 == [st EXCEPT !.m = multiply(translateMatrix, st.m),
                        !.hits = Append(@, h)]
  IN  IF collisionMode = 0
      THEN [st1 EXCEPT !.cindex = collidedIndex, !.click = TRUE]
      ELSE [st1 EXCEPT !.increment = -1 * @]

RECURSIVE detectFrom(_, _)
detectFrom(i, st) ==
  IF i > Len(cornerIndexes) THEN st
  ELSE LET position == getTransformedPosition(st.m, cornerIndexes[i])
           type == collisionType(position.x, position.y)
       IN  detectFrom(i + 1,
             IF type = "none" THEN st
             ELSE processCollision(st, cornerIndexes[i], position, type))

detectcollision ==
  detectFrom(1, [m |-> modelMatrix, cindex |-> cindex, click |-> click,
                 increment |-> increment, hits |-> << >>])

\* part_000: detectCollision's branch for a transformed corner (x, y).
collisionTypeB(x, y) ==
  IF 2 * x < -(wsize * Unit) THEN 0
  ELSE IF 2 * x > wsize * Unit THEN 1
  ELSE IF 2 * y < -(wsize * Unit) THEN 3
  ELSE IF 2 * y > wsize * Unit THEN 2
  ELSE -1

translationAmount == (8 * Unit) \div 100

\* part_000: doCollision's table translations[collisionType].
translationsB(type) ==
  CASE type = 0 -> [dx |-> translationAmount, dy |-> 0]
    [] type = 1 -> [dx |-> -translationAmount, dy |-> 0]
    [] type = 2 -> [dx |-> 0, dy |-> -translationAmount]
    [] type = 3 -> [dx |-> 0, dy |-> translationAmount]

\* draw(): what gl.drawArrays puts on the cleared canvas.
draw(m, a) == IF a = "both" THEN << m >> ELSE << >>

\* Variant of requested: no further frame after a draw() that returned early.
requestedWhenDrawn(a) == IF a = "both" THEN 1 ELSE 0

\* The requestAnimationFrame calls of one execution of the frame callback.
requested(a) == 1

\* Variant of anchor: the pivot is put at the vertex itself, not at its image
\* under the model matrix.
anchorAtVertex(d) ==
  IF d.click
  THEN LET v == getVertex(d.cindex)
       IN  [corner |-> v, tx |-> 0, ty |-> 0, click |-> FALSE]
  ELSE [corner |-> currentCorner, tx |-> tx, ty |-> ty, click |-> d.click]

\* Variant of anchor: click is not reset.
anchorLeavesClick(d) ==
  IF d.click
  THEN LET v == getVertex(d.cindex)
           c == multiplyVector4(d.m, v)
       IN  [corner |-> c, tx |-> c.x - v.x, ty |-> c.y - v.y, click |-> TRUE]
  ELSE [corner |-> currentCorner, tx |-> tx, ty |-> ty, click |-> d.click]

\* The re-anchoring step of the frame callback (if (click) {...}) after a
\* detectcollision that ended in d: the new currentCorner, tx, ty and click.
anchor(d) ==
  IF d.click
  THEN LET v == getVertex(d.cindex)
           c == multiplyVector4(d.m, v)
       IN  [corner |-> c, tx |-> c.x - v.x, ty |-> c.y - v.y, click |-> FALSE]
  ELSE [corner |-> currentCorner, tx |-> tx, ty |-> ty, click |-> d.click]

\* The frame callback, for a shader with attributes a, with p callbacks
\* still requested when it starts.
loop(a, p) ==
  \E d \in {detectcollision} :
    \E a1 \in {JsRem(ang + d.increment, 360)} :
      \E n \in {anchor(d)} :
        \E m \in {rotateAndScaleAboutCorner(a1, n.corner.x, n.corner.y, n.tx, n.ty)} :
          /\ increment' = d.increment
          /\ cindex' = d.cindex
          /\ hits' = d.hits
          /\ ang' = a1
          /\ currentCorner' = n.corner
          /\ tx' = n.tx
          /\ ty' = n.ty
          /\ click' = n.click
          /\ modelMatrix' = m
          /\ drawn' = draw(m, a)
          /\ pending' = p + requested(a)
          /\ frames' = frames + 1
          /\ UNCHANGED << scale, collisionMode >>

\* ------------------------------------------------------------- the keyboard
\* scale is a double: it starts at 1.0 and changes only by scale += 0.1 and
\* scale -= 0.1, each rounded to the nearest double.  These sums give one
\* double for each number t of tenths from 4 to 15, whatever the order of the
\* steps; ScaleUlps(t) is how many units in the last place it lies above the
\* double nearest to t/10:
\*   0.40000000000000013  0.5000000000000001  0.6000000000000001
\*   0.7000000000000001   0.8  0.9  1.0  1.1  1.2000000000000002
\*   1.3000000000000003   1.4000000000000004  1.5000000000000004
ScaleUlps(t) ==
  CASE t \in {8, 9, 10, 11} -> 0
    [] t \in {5, 6, 7, 12, 13} -> 1
    [] t \in {4, 14, 15} -> 2

\* scale < lit and scale > lit for scale at t tenths and a literal of lit
\* tenths that is a double itself (0.5, 1.5).
scaleLess(t, lit) == t < lit \/ (t = lit /\ ScaleUlps(t) < 0)
scaleGreater(t, lit) == t > lit \/ (t = lit /\ ScaleUlps(t) > 0)

\* Variant of handleKeyPress: the default case falls through to click = true.
handleKeyPressDefaultClicks(ch) ==
  LET old == [cindex |-> cindex, scale |-> scale,
              collisionMode |-> collisionMode, click |-> TRUE]
  IN  CASE ch = "r" -> [old EXCEPT !.cindex = 0]
        [] ch = "g" -> [old EXCEPT !.cindex = 1]
        [] ch = "b" -> [old EXCEPT !.cindex = 2]
        [] ch = "w" -> [old EXCEPT !.cindex = 5]
        [] ch = "ArrowUp" ->
             [old EXCEPT !.scale = IF scaleLess(scale, 15) THEN scale + 1 ELSE scale]
        [] ch = "ArrowDown" ->
             [old EXCEPT !.scale = IF scaleGreater(scale, 5) THEN scale - 1 ELSE scale]
        [] ch = "0" -> [old EXCEPT !.collisionMode = 0]
        [] ch = "1" -> [old EXCEPT !.collisionMode = 1]
        [] OTHER -> old

\* handleKeyPress: the values of cindex, scale, collisionMode and click after
\* the key ch.
handleKeyPress(ch) ==
  LET old == [cindex |-> cindex, scale |-> scale,
              collisionMode |-> collisionMode, click |-> click]
  IN  CASE ch = "r" -> [old EXCEPT !.cindex = 0, !.click = TRUE]
        [] ch = "g" -> [old EXCEPT !.cindex = 1, !.click = TRUE]
        [] ch = "b" -> [old EXCEPT !.cindex = 2, !.click = TRUE]
        [] ch = "w" -> [old EXCEPT !.cindex = 5, !.click = TRUE]
        [] ch = "ArrowUp" ->
             [old EXCEPT !.scale = IF scaleLess(scale, 15) THEN scale + 1 ELSE scale,
                         !.click = TRUE]
        [] ch = "ArrowDown" ->
             [old EXCEPT !.scale = IF scaleGreater(scale, 5) THEN scale - 1 ELSE scale,
                         !.click = TRUE]
        [] ch = "0" -> [old EXCEPT !.collisionMode = 0, !.click = TRUE]
        [] ch = "1" -> [old EXCEPT !.collisionMode = 1, !.click = TRUE]
        [] OTHER -> old

\* ------------------------------------------------------------------ actions
Init ==
  /\ phase = "loaded"
  /\ onkeydown = FALSE
  /\ cindex = 0
  /\ click = FALSE
  /\ collisionMode = 0
  /\ scale = 10
  /\ modelMatrix = Identity
  /\ ang = 0
  /\ tx = 0
  /\ ty = 0
  /\ increment = 2
  /\ currentCorner = getVertex(0)
  /\ attribs = "both"
  /\ pending = 0
  /\ drawn = << >>
  /\ hits = << >>
  /\ frames = 0
  /\ cornerKeys = 0
  /\ scaleKeys = 0
  /\ modeKeys = 0

\* mainEntrance returns before the animation is set up (no WebGL2 context,
\* shaders or buffers); the key handler is installed already.
MainEntranceFails ==
  /\ phase = "loaded"
  /\ phase' = "failed"
  /\ onkeydown' = TRUE
  /\ UNCHANGED << cindex, click, collisionMode, scale, modelMatrix, ang, tx, ty,
                  increment, currentCorner, attribs, pending, drawn, hits,
                  frames, cornerKeys, scaleKeys, modeKeys >>

\* mainEntrance sets up the closure and calls runanimation() once itself.
MainEntrance ==
  /\ phase = "loaded"
  /\ phase' = "running"
  /\ onkeydown' = TRUE
  /\ \E a \in Attribs : attribs' = a /\ loop(a, pending)
  /\ UNCHANGED << cornerKeys, scaleKeys, modeKeys >>

\* The browser runs a requested frame callback (at most n frames in a run).
FrameUpTo(n) ==
  /\ phase = "running"
  /\ pending > 0
  /\ frames < n
  /\ loop(attribs, pending - 1)
  /\ UNCHANGED << phase, onkeydown, attribs, cornerKeys, scaleKeys, modeKeys >>

Frame == FrameUpTo(MaxFrames)

FrameLong == FrameUpTo(MaxFramesLong)

\* A keydown event with key ch reaches handleKeyPress (at most nc, ns, nm
\* presses of the corner, scale and mode keys in a run).
KeyPressWithin(ch, nc, ns, nm) ==
  /\ onkeydown
  /\ ch \in CornerKeys => cornerKeys < nc
  /\ ch \in ScaleKeys => scaleKeys < ns
  /\ ch \in ModeKeys => modeKeys < nm
  /\ \E new \in {handleKeyPress(ch)} :
       /\ cindex' = new.cindex
       /\ scale' = new.scale
       /\ collisionMode' = new.collisionMode
       /\ click' = new.click
  /\ cornerKeys' = IF ch \in CornerKeys THEN cornerKeys + 1 ELSE cornerKeys
  /\ scaleKeys' = IF ch \in ScaleKeys THEN scaleKeys + 1 ELSE scaleKeys
  /\ modeKeys' = IF ch \in ModeKeys THEN modeKeys + 1 ELSE modeKeys
  /\ UNCHANGED << phase, onkeydown, modelMatrix, ang, tx, ty, increment,
                  currentCorner, attribs, pending, drawn, hits, frames >>

KeyPress(ch) == KeyPressWithin(ch, MaxCornerKeys, MaxScaleKeys, MaxModeKeys)

KeyDown == frames % KeyPeriod = 0 /\ \E ch \in Keys : KeyPress(ch)

KeyDownLong == frames = KeyPeriod /\ \E ch \in Keys : KeyPress(ch)

Next == MainEntranceFails \/ MainEntrance \/ Frame \/ KeyDown

Spec == Init /\ [][Next]_vars

NextLong == MainEntranceFails \/ MainEntrance \/ FrameLong \/ KeyDownLong

SpecLong == Init /\ [][NextLong]_vars

\* Runs of few frames and many key presses.
FrameKeys == FrameUpTo(MaxFramesKeys)

KeyDownKeys ==
  \E ch \in Keys :
    KeyPressWithin(ch, MaxCornerKeys, MaxScalePresses, MaxModeKeys)

NextKeys == MainEntranceFails \/ MainEntrance \/ FrameKeys \/ KeyDownKeys

SpecKeys == Init /\ [][NextKeys]_vars

\* ---------------------------------------------------- notions of the claims
\* A step that executes the frame callback.
FrameStep == frames' # frames

\* The image of vertex i under matrix m.
Image(m, i) == multiplyVector4(m, getVertex(i))

RECURSIVE SumDx(_)
SumDx(hs) == IF hs = << >> THEN 0 ELSE Head(hs).dx + SumDx(Tail(hs))

RECURSIVE SumDy(_)
SumDy(hs) == IF hs = << >> THEN 0 ELSE Head(hs).dy + SumDy(Tail(hs))

\* Matrix m displaced by the corrective translations of the collisions hs.
Corrected(m, hs) ==
  [m EXCEPT !.e12 = @ + SumDx(hs) * Unit, !.e13 = @ + SumDy(hs) * Unit]

\* The corners a collision was processed for.
HitIndexes(hs) == {hs[i].index : i \in 1..Len(hs)}

\* Half the viewport's side, and the correction 0.08, as lengths.
HalfExtent == (5 * Unit) \div 2
Fix == (8 * Unit) \div 100

\* The transformed corner p lies strictly beyond the viewport on some axis.
Outside(p) ==
  p.x < -HalfExtent \/ p.x > HalfExtent \/ p.y < -HalfExtent \/ p.y > HalfExtent

\* The place of corner k in the order of testing (0, 1, 2, 5).
Place(k) == IF k = 5 THEN 4 ELSE k + 1

\* The collisions of hs processed before corner k is tested.
RECURSIVE Before(_, _)
Before(hs, k) ==
  IF hs = << >> THEN << >>
  ELSE IF Place(Head(hs).index) < Place(k)
       THEN << Head(hs) >> \o Before(Tail(hs), k)
       ELSE Before(Tail(hs), k)

\* click as the re-anchoring step of this frame finds it: set by a key press
\* before the frame or by a mode-0 collision inside it.
ClickAtStep == click \/ (collisionMode = 0 /\ hits' # << >>)

\* The fixed-point arithmetic never rounds: every vertex's image is a whole
\* number of length units.
ExactImages ==
  phase = "running" =>
    \A i \in {0, 1, 2, 5} :
      LET v == getVertex(i)
      IN  /\ (modelMatrix.e0 * v.x + modelMatrix.e4 * v.y + modelMatrix.e12) % Unit = 0
          /\ (modelMatrix.e1 * v.x + modelMatrix.e5 * v.y + modelMatrix.e13) % Unit = 0

\* ------------------------------------------------------------------ claims

\* C1 (as stated): in collision mode 1, a frame whose collision detection
\* finds at least one tracked corner outside the viewport ends detection with
\* the angle increment negated, however many corners are outside.
C1_DirectionReversed ==
  [][(FrameStep /\ collisionMode = 1 /\ hits' # << >>) => increment' = -increment]_vars

\* C2: in collision mode 0, a frame whose collision detection found a corner
\* outside ends with cindex the index of a corner found outside in that frame
\* and with currentCorner, tx, ty re-anchored to that corner: currentCorner is
\* the corner's image under the model matrix as corrected by this frame's
\* collisions, tx and ty its offset from the vertex, and click is reset.
C2_ReanchoredToCollided ==
  [][(FrameStep /\ collisionMode = 0 /\ hits' # << >>) =>
       /\ cindex' \in HitIndexes(hits')
       /\ currentCorner' = Image(Corrected(modelMatrix, hits'), cindex')
       /\ tx' = currentCorner'.x - getVertex(cindex').x
       /\ ty' = currentCorner'.y - getVertex(cindex').y
       /\ ~click']_vars

\* A frame in mode 0 has processed a collision and moved the pivot to the
\* collided corner.
C2_Witness ==
  /\ phase = "running" /\ ~click /\ collisionMode = 0
  /\ hits # << >>
  /\ cindex = hits[Len(hits)].index
  /\ currentCorner = Image(modelMatrix, cindex)
  /\ tx = currentCorner.x - getVertex(cindex).x

\* C3 (as stated): in both modes, a frame that processes a collision draws
\* the square displaced by the correction: the matrix the frame ends with puts
\* the pivot vertex where the corrected matrix put it.
C3_CorrectionDrawn ==
  [][(FrameStep /\ hits' # << >>) =>
       Image(modelMatrix', cindex') = Image(Corrected(modelMatrix, hits'), cindex')]_vars

\* C4: the model matrix a frame ends with (and draws) maps the vertex at
\* cindex to currentCorner, whatever the angle and the scale; and a frame that
\* does not re-anchor leaves that vertex's image where it was.
C4_PivotIsFixedPoint ==
  [][FrameStep =>
       /\ Image(modelMatrix', cindex') = currentCorner'
       /\ drawn' # << >> => drawn'[1] = modelMatrix'
       /\ ~ClickAtStep => Image(modelMatrix', cindex') = Image(modelMatrix, cindex)]_vars

\* A frame has drawn the square rotated and scaled about a corner other than
\* the initial one, away from its initial place.
C4_Witness ==
  /\ phase = "running" /\ ~click /\ drawn = << modelMatrix >>
  /\ ang # 0 /\ scale # 10 /\ cindex # 0 /\ tx # 0
  /\ Image(modelMatrix, cindex) = currentCorner
  /\ frames > KeyPeriod + 1

C6_OneCallbackPending ==
  /\ phase = "running" => pending = 1
  /\ phase # "running" => pending = 0

\* Frames have run with a shader that lacks an attribute: nothing is drawn
\* and the next frame is requested.
C6_Witness ==
  /\ phase = "running" /\ attribs # "both" /\ frames >= 3
  /\ drawn = << >> /\ pending = 1

\* C7: a key press changes, of cindex, scale and collisionMode, only the one
\* bound to the key (r, g, b, w: cindex = 0, 1, 2, 5; the arrows: scale;
\* 0, 1: collisionMode) and sets click; any other key changes none of the
\* four; no key changes the model matrix, the angle, the increment or the
\* pivot.
C7_KeyEffect ==
  [][\A ch \in Keys :
       KeyPress(ch) =>
         /\ ch = "r" => cindex' = 0
         /\ ch = "g" => cindex' = 1
         /\ ch = "b" => cindex' = 2
         /\ ch = "w" => cindex' = 5
         /\ ch = "0" => collisionMode' = 0
         /\ ch = "1" => collisionMode' = 1
         /\ ch \notin CornerKeys => cindex' = cindex
         /\ ch \notin ScaleKeys => scale' = scale
         /\ ch \notin ModeKeys => collisionMode' = collisionMode
         /\ click' = IF ch \in CornerKeys \cup ScaleKeys \cup ModeKeys
                     THEN TRUE ELSE click
         /\ UNCHANGED << modelMatrix, ang, increment, currentCorner, tx, ty >>]_vars

\* The keys w, ArrowUp and 1 have been pressed since the last frame.
C7_Witness ==
  /\ phase = "running" /\ click
  /\ cindex = 5 /\ scale = 11 /\ collisionMode = 1
  /\ cornerKeys = 1 /\ scaleKeys = 1 /\ modeKeys = 1

\* Coordinates on each side of, and on, the two edges of an axis.
EdgeCoordinates ==
  {-HalfExtent - 1, -HalfExtent, 0, HalfExtent, HalfExtent + 1}

\* C8: the corrective translation of every processed collision is 0.08 on
\* the violated axis only, toward the inside (+x left of -2.5, -x right of
\* 2.5, +y below -2.5, -y above 2.5; x before y), and part_000's table gives
\* the same translation for the same corner position; the same holds of the
\* two handlers' tables for every position about the four edges.
C8_TranslationInward ==
  /\ \A i \in 1..Len(hits) :
       LET h == hits[i]
           horizontal == h.x < -HalfExtent \/ h.x > HalfExtent
       IN  /\ Outside(h)
           /\ h.x < -HalfExtent => h.dx = Fix /\ h.dy = 0
           /\ h.x > HalfExtent => h.dx = -Fix /\ h.dy = 0
           /\ (~horizontal /\ h.y < -HalfExtent) => h.dx = 0 /\ h.dy = Fix
           /\ (~horizontal /\ h.y > HalfExtent) => h.dx = 0 /\ h.dy = -Fix
           /\ translationsB(collisionTypeB(h.x, h.y)) = [dx |-> h.dx, dy |-> h.dy]
  /\ \A x, y \in EdgeCoordinates :
       Outside([x |-> x, y |-> y]) =>
         LET t == fixTranslation(collisionType(x, y))
         IN  /\ t = translationsB(collisionTypeB(x, y))
             /\ t.dx = IF x < -HalfExtent THEN Fix
                       ELSE IF x > HalfExtent THEN -Fix ELSE 0
             /\ t.dy = IF x < -HalfExtent \/ x > HalfExtent THEN 0
                       ELSE IF y < -HalfExtent THEN Fix ELSE -Fix

\* A frame has pushed a corner up from below the viewport.
C8_Witness ==
  \E i \in 1..Len(hits) :
    /\ hits[i].y < -HalfExtent /\ hits[i].x >= -HalfExtent
    /\ hits[i].dx = 0 /\ hits[i].dy = Fix

\* C9: every frame ends with click false; a frame that finds click set (by
\* a key press before it or by a mode-0 collision inside it) recomputes
\* currentCorner, tx and ty from the vertex at cindex, and a frame that finds
\* it clear leaves the three unchanged.
C9_ClickConsumed ==
  [][FrameStep =>
       /\ ~click'
       /\ ClickAtStep =>
            /\ currentCorner' = Image(Corrected(modelMatrix, hits'), cindex')
            /\ tx' = currentCorner'.x - getVertex(cindex').x
            /\ ty' = currentCorner'.y - getVertex(cindex').y
       /\ ~ClickAtStep => UNCHANGED << currentCorner, tx, ty >>]_vars

\* A frame has consumed the click of a corner key and moved the pivot.
C9_Witness ==
  /\ phase = "running" /\ ~click /\ hits = << >>
  /\ cornerKeys = 1 /\ cindex = 2
  /\ tx # 0
  /\ currentCorner = Image(modelMatrix, 2)

\* C10: a frame adds the increment (as collision detection leaves it) to the
\* angle and reduces it modulo 360 keeping the sign, so the angle stays
\* strictly between -360 and 360; the increment is 2 or -2; in mode 0 no
\* frame changes it, and no other step changes the angle or the increment.
C10_AngleStep ==
  [][/\ FrameStep =>
          /\ (ang + increment' - ang') % 360 = 0
          /\ -360 < ang' /\ ang' < 360
          /\ ang + increment' >= 0 => ang' >= 0
          /\ ang + increment' <= 0 => ang' <= 0
          /\ increment' \in {-2, 2}
          /\ collisionMode = 0 => increment' = increment
     /\ ~FrameStep => UNCHANGED << ang, increment >>]_vars

\* The square has bounced in mode 1 and turned back past its initial angle.
C10_Witness ==
  /\ phase = "running" /\ collisionMode = 1
  /\ increment = -2 /\ ang < 0

C12_NoJump ==
  [][(FrameStep /\ ClickAtStep) =>
       LET after == Corrected(modelMatrix, hits')
           kept == rotateAndScaleAboutCorner(ang', currentCorner.x,
                                             currentCorner.y, tx, ty)
       IN  /\ currentCorner' = Image(after, cindex')
           /\ Image(modelMatrix', cindex') = Image(after, cindex')
           /\ modelMatrix'.e0 = (scale * Cos(ang')) \div 10
           /\ modelMatrix'.e1 = (scale * Sin(ang')) \div 10
           /\ modelMatrix'.e4 = -modelMatrix'.e1
           /\ modelMatrix'.e5 = modelMatrix'.e0
           /\ \A f \in {"e0", "e1", "e4", "e5"} : modelMatrix'[f] = kept[f]]_vars

\* The frame after the key w and an arrow key has moved the pivot to vertex
\* 5, where the square rotated about vertex 0 had put it.
C12_Witness ==
  /\ phase = "running" /\ ~click /\ frames = KeyPeriod + 1
  /\ cindex = 5 /\ cornerKeys = 1 /\ scaleKeys >= 1 /\ scale # 10
  /\ currentCorner # getVertex(5)
  /\ currentCorner = Image(modelMatrix, 5)
  /\ ty = currentCorner.y - getVertex(5).y

=============================================================================
